---- MODULE Spec2Model ----
(***************************************************************************)
(* Model of wotw.inotify: the inotify record decoder (read_events), the    *)
(* watch registry built by watch(), and the poll/read/dispatch loop        *)
(* (process_inotify_events, handle_events).                                *)
(*                                                                         *)
(* Bytes are integers 0..255 and buffers are sequences of bytes.  A 32-bit *)
(* mask is carried as the set of its set bit positions (0..31); wd, cookie *)
(* and len are integers.  An operation that can raise returns a record     *)
(* with an exc field ("none" when it returns normally).                    *)
(***************************************************************************)
EXTENDS Integers, Sequences, FiniteSets, TLC

\* ---------------------------------------------------------------- bounds
\* total number of records the kernel hands over during one run
MaxRecs == 3
\* length of the list of directories passed to watch()
MaxDirs == 2

\* ------------------------------------------------------------- constants
\* struct.calcsize("iIII")
s_size == 16
\* bit position of IN_Q_OVERFLOW (0x00004000)
IN_Q_OVERFLOW == 14

\* ------------------------------------------------------ sequence helpers
Min(a, b) == IF a < b THEN a ELSE b

Last(s) == s[Len(s)]

\* Python slice b[lo:hi] with 0-based, clamped indices
Slice(b, lo, hi) == SubSeq(b, lo + 1, Min(hi, Len(b)))

Zeros(n) == [i \in 1..n |-> 0]

Pow2(n) == 2 ^ n

\* ------------------------------------------------------------ byte codec
\* bits of byte value v, shifted to positions base..base+7
BitsOfByte(v, base) == {base + k : k \in {j \in 0..7 : (v \div Pow2(j)) % 2 = 1}}

RECURSIVE SumPow2(_)
SumPow2(S) == IF S = {} THEN 0
              ELSE LET k == CHOOSE x \in S : TRUE IN Pow2(k) + SumPow2(S \ {k})

\* little-endian bytes of an unsigned 32-bit value given as its bit set
PackU32Bits(bits) ==
    [j \in 1..4 |-> SumPow2({k - 8 * (j - 1) : k \in {b \in bits : b \div 8 = j - 1}})]

\* struct "I" read as a bit set
UnpackU32Bits(b) ==
    BitsOfByte(b[1], 0) \cup BitsOfByte(b[2], 8) \cup BitsOfByte(b[3], 16) \cup BitsOfByte(b[4], 24)

\* little-endian bytes of a signed 32-bit integer (two's complement)
PackI32(v) ==
    LET lo == v % 16777216
        hi == ((v - lo) \div 16777216) % 256
    IN  <<lo % 256, (lo \div 256) % 256, (lo \div 65536) % 256, hi>>

\* struct "i": signed 32-bit little-endian
UnpackI32(b) ==
    b[1] + 256 * b[2] + 65536 * b[3]
      + 16777216 * (IF b[4] >= 128 THEN b[4] - 256 ELSE b[4])

\* struct "I": unsigned 32-bit little-endian; values of 2^31 and above are
\* reported as 2^31-1, which is larger than every buffer of the model
UnpackU32(b) ==
    IF b[4] >= 128 THEN 2147483647
    ELSE b[1] + 256 * b[2] + 65536 * b[3] + 16777216 * b[4]

\* struct.unpack("iIII", data): raises struct.error unless len(data) = 16
StructUnpackHeader(data) ==
    IF Len(data) # s_size
    THEN [exc |-> "struct.error", wd |-> 0, mask |-> {}, cookie |-> 0, len |-> 0]
    ELSE [exc |-> "none",
          wd |-> UnpackI32(SubSeq(data, 1, 4)),
          mask |-> UnpackU32Bits(SubSeq(data, 5, 8)),
          cookie |-> UnpackU32(SubSeq(data, 9, 12)),
          len |-> UnpackU32(SubSeq(data, 13, 16))]

\* a reader that accepts whatever the slice holds (no length check)
StructUnpackNameUnchecked(n, data) == [exc |-> "none", val |-> data]

\* struct.unpack("%ds" % n, data): raises struct.error unless len(data) = n
StructUnpackName(n, data) ==
    IF Len(data) # n THEN [exc |-> "struct.error", val |-> <<>>]
    ELSE [exc |-> "none", val |-> data]

\* bytes.rstrip(b"\0")
RECURSIVE Rstrip(_)
Rstrip(b) == IF b # <<>> /\ Last(b) = 0 THEN Rstrip(SubSeq(b, 1, Len(b) - 1)) ELSE b

\* ------------------------------------------------------------------ UTF-8
IsCont(b) == b >= 128 /\ b <= 191

\* str.encode("utf-8") for code points below 0x10000 (no surrogates)
RECURSIVE Utf8Encode(_)
Utf8Encode(cps) ==
    IF cps = <<>> THEN <<>>
    ELSE LET c == Head(cps)
             enc == IF c < 128 THEN <<c>>
                    ELSE IF c < 2048 THEN <<192 + (c \div 64), 128 + (c % 64)>>
                    ELSE <<224 + (c \div 4096), 128 + ((c \div 64) % 64), 128 + (c % 64)>>
         IN  enc \o Utf8Encode(Tail(cps))

\* bytes.decode("utf-8"), strict: exc is "UnicodeDecodeError" on an invalid
\* start byte, a missing continuation byte, an overlong form or a surrogate
RECURSIVE Utf8DecodeFrom(_, _)
Utf8DecodeFrom(b, acc) ==
    IF b = <<>> THEN [exc |-> "none", val |-> acc]
    ELSE LET b1 == b[1]
             bad == [exc |-> "UnicodeDecodeError", val |-> <<>>]
         IN  IF b1 < 128 THEN Utf8DecodeFrom(Tail(b), Append(acc, b1))
             ELSE IF b1 >= 194 /\ b1 <= 223
             THEN IF Len(b) >= 2 /\ IsCont(b[2])
                  THEN Utf8DecodeFrom(SubSeq(b, 3, Len(b)),
                                      Append(acc, (b1 - 192) * 64 + (b[2] - 128)))
                  ELSE bad
             ELSE IF b1 >= 224 /\ b1 <= 239
             THEN IF Len(b) >= 3 /\ IsCont(b[2]) /\ IsCont(b[3])
                  THEN LET c == (b1 - 224) * 4096 + (b[2] - 128) * 64 + (b[3] - 128)
                       IN  IF c < 2048 \/ (c >= 55296 /\ c <= 57343) THEN bad
                           ELSE Utf8DecodeFrom(SubSeq(b, 4, Len(b)), Append(acc, c))
                  ELSE bad
             ELSE IF b1 >= 240 /\ b1 <= 244
             THEN IF Len(b) >= 4 /\ IsCont(b[2]) /\ IsCont(b[3]) /\ IsCont(b[4])
                  THEN LET c == (b1 - 240) * 262144 + (b[2] - 128) * 4096
                                  + (b[3] - 128) * 64 + (b[4] - 128)
                       IN  IF c < 65536 \/ c > 1114111 THEN bad
                           ELSE Utf8DecodeFrom(SubSeq(b, 5, Len(b)), Append(acc, c))
                  ELSE bad
             ELSE bad

Utf8Decode(b) == Utf8DecodeFrom(b, <<>>)

\* ---------------------------------------------------------- mask catalog
\* InotifyMaskNames, keyed by bit position
InotifyMaskNames ==
    (0 :> "File was accessed") @@ (1 :> "File was modified") @@
    (2 :> "Metadata changed") @@ (3 :> "File was closed and written to") @@
    (4 :> "File was closed and not written to") @@ (5 :> "File was opened") @@
    (6 :> "File was moved from X") @@ (7 :> "File was moved to Y") @@
    (8 :> "Subfile was created") @@ (9 :> "Subfile was deleted") @@
    (10 :> "Self was deleted") @@ (11 :> "Self was moved") @@
    (13 :> "Backing fs was unmounted") @@ (14 :> "Event queued overflowed") @@
    (15 :> "File was ignored") @@
    (24 :> "Only watch the path if it is a directory") @@
    (25 :> "Don't follow a sym link") @@
    (26 :> "Exclude events on unlinked objects") @@
    (28 :> "Only create watches") @@
    (29 :> "Add to the mask of an already existing watch") @@
    (30 :> "Event occurred against dir") @@ (31 :> "Only send event once")

\* mask_to_event_names: for idx in 0..31, if the bit is set, look its name
\* up in InotifyMaskNames; the lookup raises KeyError for a missing key
RECURSIVE MaskNamesFrom(_, _, _)
MaskNamesFrom(mask, idx, acc) ==
    IF idx > 31 THEN [exc |-> "none", val |-> acc]
    ELSE IF idx \in mask
         THEN IF idx \in DOMAIN InotifyMaskNames
              THEN MaskNamesFrom(mask, idx + 1, Append(acc, InotifyMaskNames[idx]))
              ELSE [exc |-> "KeyError(mask)", val |-> <<>>]
         ELSE MaskNamesFrom(mask, idx + 1, acc)

mask_to_event_names(mask) == MaskNamesFrom(mask, 0, <<>>)

\* ---------------------------------------------------------------- decoder
InotifyEvent(w, mask, cookie, len, filename, events) ==
    [wd |-> w, mask |-> mask, cookie |-> cookie, len |-> len,
     filename |-> filename, events |-> events]

\* the while loop of read_events over event_buffer, from cursor buffer_i;
\* acc is what has been put on the queue so far
RECURSIVE DecodeFrom(_, _, _)
DecodeFrom(event_buffer, buffer_i, acc) ==
    IF ~(buffer_i < Len(event_buffer))
    THEN [exc |-> "none", events |-> acc, cursor |-> buffer_i]
    ELSE LET h == StructUnpackHeader(Slice(event_buffer, buffer_i, buffer_i + s_size))
         IN  IF h.exc # "none"
             THEN [exc |-> h.exc, events |-> acc, cursor |-> buffer_i]
             ELSE
             LET n == StructUnpackName(h.len,
                          Slice(event_buffer, buffer_i + s_size, buffer_i + s_size + h.len))
             IN  IF n.exc # "none"
                 THEN [exc |-> n.exc, events |-> acc, cursor |-> buffer_i]
                 ELSE
                 LET filename == Rstrip(n.val)
                     event_names == mask_to_event_names(h.mask)
                 IN  IF event_names.exc # "none"
                     THEN [exc |-> event_names.exc, events |-> acc, cursor |-> buffer_i]
                     ELSE
                     LET s == Utf8Decode(filename)
                     IN  IF s.exc # "none"
                         THEN [exc |-> s.exc, events |-> acc, cursor |-> buffer_i]
                         ELSE DecodeFrom(event_buffer, buffer_i + s_size + h.len,
                                  Append(acc, InotifyEvent(h.wd, h.mask, h.cookie, h.len,
                                                           s.val, event_names.val)))

Decode(event_buffer) == DecodeFrom(event_buffer, 0, <<>>)

\* ------------------------------------------------- kernel side (inputs)
\* a record as the kernel lays it out: struct inotify_event followed by
\* the name and its NUL padding
EncodeRecord(r) ==
    PackI32(r.wd) \o PackU32Bits(r.mask) \o PackI32(r.cookie)
      \o PackI32(Len(r.name) + r.pad) \o r.name \o Zeros(r.pad)

RECURSIVE EncodeRecords(_)
EncodeRecords(rs) ==
    IF rs = <<>> THEN <<>> ELSE EncodeRecord(Head(rs)) \o EncodeRecords(Tail(rs))

\* the records the kernel may hand over: a create of "a" in watch 1, a
\* moved-to of a directory named U+00E9 in watch 2 (cookie 7), the
\* queue-overflow record (wd -1, no name), a record with the unassigned
\* bit 0x1000, and a record whose name is not UTF-8
Records ==
    { [wd |-> 1, mask |-> {8}, cookie |-> 0, name |-> <<97>>, pad |-> 3],
      [wd |-> 2, mask |-> {7, 30}, cookie |-> 7, name |-> <<195, 169>>, pad |-> 2],
      [wd |-> -1, mask |-> {IN_Q_OVERFLOW}, cookie |-> 0, name |-> <<>>, pad |-> 0],
      [wd |-> 1, mask |-> {8, 12}, cookie |-> 0, name |-> <<97>>, pad |-> 3],
      [wd |-> 1, mask |-> {1}, cookie |-> 0, name |-> <<255>>, pad |-> 1] }

SeqsUpTo(S, n) == UNION {[1..k -> S] : k \in 0..n}

\* directories the caller may pass: /a, /(U+00E9), /l (a link to /a) and
\* /x, which does not exist
PathA == <<47, 97>>
PathB == <<47, 233>>
PathLink == <<47, 108>>
PathMissing == <<47, 120>>
Paths == {PathA, PathB, PathLink, PathMissing}

\* the filesystem object a path names (0: none)
Inode(dirstr) ==
    IF dirstr = Utf8Encode(PathA) \/ dirstr = Utf8Encode(PathLink) THEN 1
    ELSE IF dirstr = Utf8Encode(PathB) THEN 2
    ELSE 0

\* inotify_add_watch: -1 when the path cannot be watched, the existing
\* descriptor when the object is already watched, else the next descriptor
KernelAddWatch(kw, dirstr) ==
    LET ino == Inode(dirstr)
    IN  IF ino = 0 THEN -1
        ELSE IF ino \in DOMAIN kw THEN kw[ino]
        ELSE Cardinality(DOMAIN kw) + 1

\* values inotify_init may return
InitResults == {-1, 0, 3}

\* ------------------------------------------------------------------ state
\* the local wd of watch() before the first assignment
NoWd == 0

NoRead == [status |-> "none", recs |-> <<>>, cut |-> 0, exc |-> "none",
           out |-> <<>>, before |-> 0]

VARIABLES
    pc,           \* position in watch(): init, add, poll, read, handle, done
    dirs,         \* directories still to be registered by the for loop
    inotify_fd,   \* result of inotify_init
    fd_open,      \* the inotify descriptor is open
    kwatches,     \* kernel side: watched object -> watch descriptor
    watches,      \* registry: watch descriptor -> path bytes
    wd,           \* local wd of watch()
    event_queue,  \* Queue of process_inotify_events
    delivered,    \* handler invocations so far, as <<event, dir>> records
    sent,         \* records handed over by the kernel so far, with their read
    enqueued,     \* events put on the queue so far
    lastRead,     \* the most recent read_events call
    lastGot,      \* the event most recently taken from the queue
    lastPoll,     \* outcome of the most recent epoll.poll
    loopExit,     \* how process_inotify_events was left
    raised,       \* exception watch() ends with
    errPath       \* path named in the add-watch error message

vars == <<pc, dirs, inotify_fd, fd_open, kwatches, watches, wd, event_queue,
          delivered, sent, enqueued, lastRead, lastGot, lastPoll, loopExit,
          raised, errPath>>

loopVars == <<event_queue, delivered, sent, enqueued, lastRead, lastGot, lastPoll>>
argVars == <<dirs, inotify_fd, watches, wd, errPath>>

Init ==
    /\ pc = "init"
    /\ dirs \in SeqsUpTo(Paths, MaxDirs)
    /\ inotify_fd = -1
    /\ fd_open = FALSE
    /\ kwatches = <<>>
    /\ watches = <<>>
    /\ wd = NoWd
    /\ event_queue = <<>>
    /\ delivered = <<>>
    /\ sent = <<>>
    /\ enqueued = <<>>
    /\ lastRead = NoRead
    /\ lastGot = <<>>
    /\ lastPoll = "none"
    /\ loopExit = "none"
    /\ raised = "none"
    /\ errPath = <<>>

\* ---------------------------------------------------------------- watch()
\* inotify_fd = inotify_init(); if inotify_fd > 0: ... else: raise OSError
InotifyInit ==
    /\ pc = "init"
    /\ \E fd \in InitResults :
          /\ inotify_fd' = fd
          /\ fd_open' = (fd >= 0)
          /\ IF fd > 0
             THEN pc' = "add" /\ raised' = raised
             ELSE pc' = "done" /\ raised' = "OSError(init)"
    /\ UNCHANGED <<dirs, kwatches, watches, wd, errPath, loopExit>>
    /\ UNCHANGED loopVars

\* one iteration of "for dir in directories"; the raise is outside the try
AddWatch ==
    /\ pc = "add"
    /\ dirs # <<>>
    /\ LET dirstr == Utf8Encode(Head(dirs))
           new_wd == KernelAddWatch(kwatches, dirstr)
       IN  IF new_wd < 0
           THEN /\ pc' = "done"
                /\ raised' = "OSError(add)"
                /\ errPath' = Utf8Decode(dirstr).val
                /\ UNCHANGED <<kwatches, watches, wd, dirs>>
           ELSE /\ kwatches' = (Inode(dirstr) :> new_wd) @@ kwatches
                /\ watches' = (new_wd :> dirstr) @@ watches
                /\ wd' = new_wd
                /\ dirs' = Tail(dirs)
                /\ UNCHANGED <<pc, raised, errPath>>
    /\ UNCHANGED <<inotify_fd, fd_open, loopExit>>
    /\ UNCHANGED loopVars

\* the for loop is exhausted: process_inotify_events creates the queue,
\* registers the descriptor with epoll and enters while True
StartLoop ==
    /\ pc = "add"
    /\ dirs = <<>>
    /\ pc' = "poll"
    /\ event_queue' = <<>>
    /\ UNCHANGED <<delivered, sent, enqueued, lastRead, lastGot, lastPoll>>
    /\ UNCHANGED <<loopExit, raised, fd_open, kwatches>>
    /\ UNCHANGED argVars

\* process_inotify_events is left with `how` (break on KeyboardInterrupt,
\* any other exception propagates) and the finally clause of watch() runs:
\* inotify_rm_watch(inotify_fd, wd); close_inotify_fd(inotify_fd).
\* wd is unbound when the for loop never ran: the name lookup raises and
\* the close is not reached
Leave(how) ==
    /\ loopExit' = how
    /\ pc' = "done"
    /\ IF wd = NoWd
       THEN /\ raised' = "UnboundLocalError"
            /\ UNCHANGED <<fd_open, kwatches>>
       ELSE /\ kwatches' = <<>>
            /\ fd_open' = FALSE
            /\ raised' = IF how = "KeyboardInterrupt" THEN "none" ELSE how

\* the loop goes on at position p
Goto(p) ==
    /\ pc' = p
    /\ UNCHANGED <<loopExit, raised, fd_open, kwatches>>

\* -------------------------------------------------- process_inotify_events
\* a get that takes the newest item (LifoQueue)
QGetLifo(q) == [item |-> Last(q), rest |-> SubSeq(q, 1, Len(q) - 1)]

\* Queue.get on a FIFO queue
QGet(q) == [item |-> Head(q), rest |-> Tail(q)]

\* a lookup by the descriptor watch() added last instead of the event's
ResolveLastAdded(w, h) == w[wd]

\* watches[event.wd]
Resolve(w, h) == w[h]

\* the records of one read, tagged with the number of the read
Tagged(recs) ==
    LET n == IF sent = <<>> THEN 1 ELSE Last(sent).read + 1
    IN  [i \in 1..Len(recs) |-> [rec |-> recs[i], read |-> n]]

\* the bytes os.read returns for records recs with the last cut bytes missing
BufferOf(recs, cut) ==
    LET full == EncodeRecords(recs) IN SubSeq(full, 1, Len(full) - cut)

\* epoll.poll(POLL_INTERVAL) returns no event; handle_events finds the
\* queue empty and the loop polls again
PollTimeout ==
    /\ pc = "poll"
    /\ lastPoll' = "timeout"
    /\ Goto("poll")
    /\ UNCHANGED <<event_queue, delivered, sent, enqueued, lastRead, lastGot>>
    /\ UNCHANGED argVars

\* epoll.poll reports EPOLLIN for the descriptor; the kernel queues
\* records only for an inotify instance that has a watch
PollReady ==
    /\ pc = "poll"
    /\ kwatches # <<>>
    /\ lastPoll' = "ready"
    /\ Goto("read")
    /\ UNCHANGED <<event_queue, delivered, sent, enqueued, lastRead, lastGot>>
    /\ UNCHANGED argVars

\* an except clause that goes on with the loop instead of breaking
PollInterruptIgnored ==
    /\ pc = "poll"
    /\ lastPoll' = "interrupted"
    /\ loopExit' = "KeyboardInterrupt"
    /\ UNCHANGED <<pc, raised, fd_open, kwatches>>
    /\ UNCHANGED <<event_queue, delivered, sent, enqueued, lastRead, lastGot>>
    /\ UNCHANGED argVars

\* KeyboardInterrupt while blocked in epoll.poll: except ... break
PollInterrupt ==
    /\ pc = "poll"
    /\ lastPoll' = "interrupted"
    /\ Leave("KeyboardInterrupt")
    /\ UNCHANGED <<event_queue, delivered, sent, enqueued, lastRead, lastGot>>
    /\ UNCHANGED argVars

\* read_events: os.read returns a buffer, the while loop decodes it and
\* puts each event on the queue; an exception of the decoding leaves the
\* loop (only KeyboardInterrupt is caught)
ReadEvents ==
    /\ pc = "read"
    /\ \E recs \in SeqsUpTo(Records, MaxRecs - Len(sent)), cut \in {0, 1} :
          /\ cut = 1 => recs # <<>>
          /\ LET r == Decode(BufferOf(recs, cut))
             IN  /\ sent' = sent \o Tagged(recs)
                 /\ event_queue' = event_queue \o r.events
                 /\ enqueued' = enqueued \o r.events
                 /\ lastRead' = [status |-> "decoded", recs |-> recs, cut |-> cut,
                                 exc |-> r.exc, out |-> r.events,
                                 before |-> Len(delivered)]
                 /\ IF r.exc = "none" THEN Goto("handle") ELSE Leave(r.exc)
    /\ UNCHANGED <<delivered, lastGot, lastPoll>>
    /\ UNCHANGED argVars

\* a read error that is swallowed: the loop goes on to handle_events
ReadOSErrorSwallowed ==
    /\ pc = "read"
    /\ lastRead' = [NoRead EXCEPT !.status = "oserror", !.exc = "OSError(read)",
                                  !.before = Len(delivered)]
    /\ Goto("handle")
    /\ UNCHANGED <<event_queue, delivered, sent, enqueued, lastGot, lastPoll>>
    /\ UNCHANGED argVars

\* os.read raises OSError, which read_events re-raises
ReadOSError ==
    /\ pc = "read"
    /\ lastRead' = [NoRead EXCEPT !.status = "oserror", !.exc = "OSError(read)",
                                  !.before = Len(delivered)]
    /\ Leave("OSError(read)")
    /\ UNCHANGED <<event_queue, delivered, sent, enqueued, lastGot, lastPoll>>
    /\ UNCHANGED argVars

\* KeyboardInterrupt inside read_events after k events were put on the queue
ReadInterrupt ==
    /\ pc = "read"
    /\ \E recs \in SeqsUpTo(Records, MaxRecs - Len(sent)) :
          LET r == Decode(BufferOf(recs, 0))
          IN  \E k \in 0..Len(r.events) :
                 /\ sent' = sent \o Tagged(recs)
                 /\ event_queue' = event_queue \o SubSeq(r.events, 1, k)
                 /\ enqueued' = enqueued \o SubSeq(r.events, 1, k)
                 /\ lastRead' = [status |-> "interrupted", recs |-> recs, cut |-> 0,
                                 exc |-> "KeyboardInterrupt",
                                 out |-> SubSeq(r.events, 1, k),
                                 before |-> Len(delivered)]
    /\ Leave("KeyboardInterrupt")
    /\ UNCHANGED <<delivered, lastGot, lastPoll>>
    /\ UNCHANGED argVars

\* a handle_events that takes the entry out of the registry
\* (watches.pop(event.wd)) when it dispatches an event
HandleEventPop ==
    /\ pc = "handle"
    /\ event_queue # <<>>
    /\ LET event == Head(event_queue)
       IN  /\ event.wd \in DOMAIN watches
           /\ event_queue' = Tail(event_queue)
           /\ lastGot' = <<event>>
           /\ delivered' = Append(delivered,
                              [ev |-> event, dir |-> Utf8Decode(watches[event.wd]).val])
           /\ watches' = [h \in DOMAIN watches \ {event.wd} |-> watches[h]]
    /\ Goto("handle")
    /\ UNCHANGED <<sent, enqueued, lastRead, lastPoll>>
    /\ UNCHANGED <<dirs, inotify_fd, wd, errPath>>

\* one iteration of the while loop of handle_events: take the next event,
\* look its directory up and call the handler, which returns, raises, or is
\* interrupted; "interrupt_before" is a KeyboardInterrupt between q.get()
\* and the call
HandleEvent ==
    /\ pc = "handle"
    /\ event_queue # <<>>
    /\ \E outcome \in {"return", "raise", "interrupt", "interrupt_before"} :
          LET g == QGet(event_queue)
              event == g.item
          IN  /\ event_queue' = g.rest
              /\ lastGot' = <<event>>
              /\ IF event.wd \notin DOMAIN watches
                 THEN Leave("KeyError(wd)") /\ UNCHANGED delivered
                 ELSE LET d == Utf8Decode(Resolve(watches, event.wd))
                      IN  IF d.exc # "none"
                          THEN Leave(d.exc) /\ UNCHANGED delivered
                          ELSE IF outcome = "interrupt_before"
                          THEN Leave("KeyboardInterrupt") /\ UNCHANGED delivered
                          ELSE /\ delivered' = Append(delivered, [ev |-> event, dir |-> d.val])
                               /\ IF outcome = "return" THEN Goto("handle")
                                  ELSE IF outcome = "raise" THEN Leave("HandlerError")
                                  ELSE Leave("KeyboardInterrupt")
    /\ UNCHANGED <<sent, enqueued, lastRead, lastPoll>>
    /\ UNCHANGED argVars

\* a handle_events that may return while events are still queued
HandleDoneEarly ==
    /\ pc = "handle"
    /\ Goto("poll")
    /\ UNCHANGED <<event_queue, delivered, sent, enqueued, lastRead, lastGot, lastPoll>>
    /\ UNCHANGED argVars

\* the queue is empty: handle_events returns and the loop polls again
HandleDone ==
    /\ pc = "handle"
    /\ event_queue = <<>>
    /\ Goto("poll")
    /\ UNCHANGED <<event_queue, delivered, sent, enqueued, lastRead, lastGot, lastPoll>>
    /\ UNCHANGED argVars

Next ==
    \/ InotifyInit
    \/ AddWatch
    \/ StartLoop
    \/ PollTimeout
    \/ PollReady
    \/ PollInterrupt
    \/ ReadEvents
    \/ ReadOSError
    \/ ReadInterrupt
    \/ HandleEvent
    \/ HandleDone

Spec == Init /\ [][Next]_vars

\* ------------------------------------------------------------ properties
\* the events handed to the handler so far
DeliveredEvents == [i \in 1..Len(delivered) |-> delivered[i].ev]

\* event ev carries the fields of kernel record rec, its name without the
\* NUL padding
Matches(ev, rec) ==
    /\ ev.wd = rec.wd
    /\ ev.mask = rec.mask
    /\ ev.cookie = rec.cookie
    /\ ev.len = Len(rec.name) + rec.pad
    /\ Utf8Encode(ev.filename) = rec.name

\* C1: the handler invocations follow the order of the records in the
\* buffers read from the kernel: the i-th invocation is for the i-th record
\* handed over (by offset within a read, by read order across reads), so no
\* invocation for a later record precedes one for an earlier record.
C1_HandlerOrder ==
    /\ Len(delivered) <= Len(sent)
    /\ \A i \in 1..Len(delivered) : Matches(delivered[i].ev, sent[i].rec)

\* three invocations: two distinct records of one read, then a record of a
\* later read
C1_Witness ==
    /\ Len(delivered) = 3
    /\ sent[1].read = sent[2].read
    /\ sent[3].read # sent[2].read
    /\ sent[1].rec # sent[2].rec
    /\ sent[3].rec # sent[2].rec

\* C2: every record decoded from a read is delivered to the handler exactly
\* once and nothing else is delivered: whenever the loop is between batches
\* or watch() has ended, the events delivered are exactly the events that
\* read_events enqueued, also after a record that cannot be resolved or a
\* cancellation mid-batch (reads whose decoding itself failed set aside).
C2_ExactlyOnce ==
    (pc \in {"poll", "done"} /\ lastRead.exc \in {"none", "KeyboardInterrupt"}) =>
        DeliveredEvents = enqueued

\* C3: for every buffer that is a well-formed concatenation of N records,
\* read_events emits exactly N events in buffer order, each with the
\* record's wd, mask and cookie and its name stripped of the NUL padding.
C3_DecodesEveryRecord ==
    (lastRead.status = "decoded" /\ lastRead.cut = 0) =>
        /\ lastRead.exc = "none"
        /\ Len(lastRead.out) = Len(lastRead.recs)
        /\ \A i \in 1..Len(lastRead.recs) : Matches(lastRead.out[i], lastRead.recs[i])

\* C4: when the buffer ends inside a record (its header is cut short or
\* its declared nameLen reaches past the end of the buffer), decoding
\* raises: struct.error when the decoder reaches that record; the error
\* leaves the loop and watch() ends with an exception, no event is built
\* for the cut record and nothing of the read is passed to the handler.
C4_TruncatedRecordRaises ==
    (lastRead.status = "decoded" /\ lastRead.cut > 0) =>
        /\ \/ lastRead.exc = "struct.error"
           \/ /\ lastRead.exc \in {"KeyError(mask)", "UnicodeDecodeError"}
              /\ Len(lastRead.out) < Len(lastRead.recs) - 1
        /\ Len(lastRead.out) < Len(lastRead.recs)
        /\ pc = "done"
        /\ loopExit = lastRead.exc
        /\ raised # "none"
        /\ Len(delivered) = lastRead.before

\* a read of two records, the second cut short, after an earlier batch was
\* delivered; watch() ended with struct.error
C4_Witness ==
    /\ lastRead.status = "decoded"
    /\ lastRead.cut = 1
    /\ Len(lastRead.recs) = 2
    /\ Len(lastRead.out) = 1
    /\ lastRead.before >= 1
    /\ raised = "struct.error"

\* C5: whenever the handler is invoked with an event whose wd is h, the
\* directory passed with it is the path registered for h (watches[h]).
C5_OwnDirectory ==
    \A i \in 1..Len(delivered) :
        /\ delivered[i].ev.wd \in DOMAIN watches
        /\ Utf8Encode(delivered[i].dir) = watches[delivered[i].ev.wd]

\* two records of one read for two watched directories, each delivered
\* with its own directory
C5_Witness ==
    /\ Len(delivered) >= 2
    /\ sent[1].read = sent[2].read
    /\ delivered[1].ev.wd # delivered[2].ev.wd
    /\ delivered[1].dir # delivered[2].dir

\* C6: a record with the queue-overflow bit set, taken from the queue, is
\* delivered to the handler instead of being dropped or ending the loop,
\* also for the kernel's overflow record with handle -1 (unless the loop
\* was cancelled).
C6_OverflowDelivered ==
    (lastGot # <<>> /\ IN_Q_OVERFLOW \in lastGot[1].mask
        /\ loopExit # "KeyboardInterrupt") =>
        /\ delivered # <<>>
        /\ Last(delivered).ev = lastGot[1]
        /\ loopExit # "KeyError(wd)"

\* C7: when the handle of a decoded record is not in the registry, the
\* event is dropped and the loop goes on: the loop does not end with the
\* lookup error.
C7_UnknownWatchDropped ==
    (lastGot # <<>> /\ lastGot[1].wd \notin DOMAIN watches) =>
        loopExit # "KeyError(wd)"

\* C8: when adding the watch for one of the directories fails, watch()
\* fails with an error naming that path and holds no resource on return:
\* the watches added before are removed and the descriptor is closed.
C8_AddFailureReleases ==
    (pc = "done" /\ raised = "OSError(add)") =>
        /\ errPath = Head(dirs)
        /\ kwatches = <<>>
        /\ ~fd_open

\* C9: on every exit of watch() after the descriptor was opened and the
\* loop was entered (cancellation, read error, decode error, exception of
\* the handler or of the path lookup; any number of directories, zero
\* included), the descriptor is closed when watch() returns or raises.
C9_DescriptorClosed ==
    (pc = "done" /\ loopExit # "none") => ~fd_open

\* C10: once watches[h] is set to a path, no later registration of the
\* same call replaces it with a different path.
C10_NoOverwrite ==
    [][\A h \in DOMAIN watches : h \in DOMAIN watches' /\ watches'[h] = watches[h]]_vars

\* the set bits of mask that the catalog defines
DefinedBits(mask) == mask \cap DOMAIN InotifyMaskNames

\* the n-th smallest element of a set of bit positions
NthBit(S, n) == CHOOSE b \in S : Cardinality({x \in S : x < b}) = n - 1

\* the catalog names of the defined set bits, by increasing bit position
NamesOfDefinedBits(mask) ==
    [n \in 1..Cardinality(DefinedBits(mask)) |->
        InotifyMaskNames[NthBit(DefinedBits(mask), n)]]

\* C11: for every mask (here: the mask of every record handed over),
\* mask_to_event_names returns the names of exactly the set bits the catalog
\* defines, by increasing bit position, and skips the set bits the catalog
\* does not define without raising.
C11_NamesOfDefinedBits ==
    \A i \in 1..Len(sent) :
        LET r == mask_to_event_names(sent[i].rec.mask)
        IN  /\ r.exc = "none"
            /\ r.val = NamesOfDefinedBits(sent[i].rec.mask)

\* C12: when os.read raises OSError the loop is Stopped: the error leaves
\* process_inotify_events and watch() raises it (not swallowed, not
\* retried), and no read or handler invocation follows.
C12_ReadErrorStops ==
    lastRead.status = "oserror" =>
        /\ pc = "done"
        /\ loopExit = "OSError(read)"
        /\ raised = "OSError(read)"
        /\ ~fd_open
        /\ Len(delivered) = lastRead.before

\* a read error after an earlier batch of two records was delivered
C12_Witness ==
    /\ lastRead.status = "oserror"
    /\ lastRead.before = 2
    /\ raised = "OSError(read)"
    /\ pc = "done"

\* positions of watch() inside the while loop of process_inotify_events
Watching == pc \in {"poll", "read", "handle"}

\* C13: once KeyboardInterrupt was raised in the loop, the loop is Stopped
\* (the except clause breaks and watch() ends), also when the interrupt
\* comes while polling and no event ever arrived; and once watch() has
\* ended it stays ended: no further poll, read or handler invocation.
C13_CancelStops ==
    /\ [](loopExit = "KeyboardInterrupt" => pc = "done")
    /\ [][pc = "done" =>
            /\ pc' = "done"
            /\ UNCHANGED <<lastPoll, lastRead, sent, delivered, event_queue>>]_vars

\* the interrupt came while polling and no record was ever handed over
C13_Witness ==
    /\ pc = "done"
    /\ loopExit = "KeyboardInterrupt"
    /\ lastPoll = "interrupted"
    /\ sent = <<>>
    /\ watches # <<>>
    /\ ~fd_open

\* C14: the loop is entered only after at least one watch was registered:
\* whenever watch() is inside the loop the registry is not empty, for every
\* list of directories, the empty list included.
C14_WatchBeforeLoop ==
    Watching => watches # <<>>

\* C15: nothing is buffered beyond one read: whenever the loop polls or is
\* about to read, the queue is empty and every event enqueued so far has
\* been passed to the handler.
C15_QueueDrained ==
    pc \in {"poll", "read"} =>
        /\ event_queue = <<>>
        /\ DeliveredEvents = enqueued

\* the loop is about to read again after a read of two records, both
\* dispatched
C15_Witness ==
    /\ pc = "read"
    /\ Len(lastRead.out) = 2
    /\ Len(enqueued) = 2
    /\ Len(delivered) = 2
    /\ event_queue = <<>>

\* C16: for every well-formed buffer the decode loop of read_events ends
\* with the cursor at len(buffer), having emitted one event per record; a
\* record with nameLen = 0 gives an event with an empty name and moves the
\* cursor by the header size only.
C16_CursorEndsAtLength ==
    (lastRead.status = "decoded" /\ lastRead.cut = 0) =>
        LET buf == BufferOf(lastRead.recs, 0)
            r == Decode(buf)
        IN  /\ r.exc = "none"
            /\ r.cursor = Len(buf)
            /\ Len(r.events) = Len(lastRead.recs)
            /\ \A i \in 1..Len(r.events) :
                  r.events[i].len = 0 => r.events[i].filename = <<>>

\* C17: while watch() is inside the loop, no step changes the registry:
\* polling, reading, decoding and dispatching leave watches as the for loop
\* of watch() built it.
C17_RegistryFrame ==
    [][Watching => watches' = watches]_vars

\* the loop is dispatching a batch with two directories registered
C17_Witness ==
    /\ pc = "handle"
    /\ Cardinality(DOMAIN watches) = 2
    /\ Len(delivered) = 1
    /\ event_queue # <<>>

\* C18: watch() raises "Unable to initialize inotify" only when
\* inotify_init returned a negative value (every descriptor >= 0, 0
\* included, is accepted), and then no watch was added and the handler was
\* not invoked.
C18_InitFailureOnlyOnError ==
    raised = "OSError(init)" =>
        /\ inotify_fd < 0
        /\ kwatches = <<>>
        /\ watches = <<>>
        /\ delivered = <<>>

====
